---- MODULE Spec2Model ----
(***************************************************************************)
(* HeroCanvas (src/src/components/HeroCanvas.tsx): the noise-field frame   *)
(* loop and its host effect.  The state is the component's refs            *)
(* (canvasRef, containerRef, ctxRef, mouseRef, rafRef), the canvas pixel   *)
(* buffer, the browser's table of registered animation-frame callbacks and *)
(* the paint calls issued by the most recent frame callback.               *)
(*                                                                         *)
(* JavaScript runs every handler to completion on one thread, so each      *)
(* handler (effect body, cleanup, ResizeObserver callback, frame callback, *)
(* mouse handler) is one atomic action.                                    *)
(*                                                                         *)
(* The host is React: it attaches the element refs before it runs the      *)
(* effect, detaches them in the commit that removes the element (which may *)
(* precede the passive effect cleanup), and flushes a pending cleanup      *)
(* before any later commit attaches refs again.  main.tsx renders under    *)
(* StrictMode, so the effect is mounted, cleaned up and mounted again.     *)
(*                                                                         *)
(* Numbers: coordinates are integers (CSS pixels).  Math.sqrt is modelled  *)
(* by the integer square root (rounded down) and proximity is kept as the  *)
(* numerator of a fraction over MOUSE_INFLUENCE_RADIUS, so that            *)
(* "proximity > 0" and "proximity = 0" are decided exactly.                *)
(*                                                                         *)
(* Further parts, each with its own specification over the same variables: *)
(* CellSpec applies animate's per-cell arithmetic (exact fractions),       *)
(* NoiseSpec and PureSpec evaluate simplex3 in fixed point over the        *)
(* permutation and gradient tables, and AppSpec models App.tsx with        *)
(* useLenis, both Loader sources, the menu and project handlers and        *)
(* AmbientSound; MoodSpec models the MoodProvider with React's update      *)
(* queue, and RoutedSpec the routed App's menu overlay and project modal   *)
(* state with their tweens and timers.                                     *)
(***************************************************************************)
EXTENDS Integers, Sequences, FiniteSets, TLC

VARIABLES
    mounted,        \* the effect has run and its cleanup has not
    canvasRef,      \* canvasRef.current is an element (TRUE) or null (FALSE)
    containerRef,   \* containerRef.current is an element (TRUE) or null
    ctxRef,         \* ctxRef.current is a context (TRUE) or null (FALSE)
    dpr,            \* window.devicePixelRatio || 1
    canvasW,        \* canvas.width  (device pixels)
    canvasH,        \* canvas.height (device pixels)
    ctxScale,       \* the context's current transform scale
    mouse,          \* mouseRef.current: [x, y]
    rafRef,         \* rafRef.current: a callback handle, 0 for none
    pending,        \* handles of the registered animation-frame callbacks
    ops,            \* paint calls issued by the most recent frame callback
    surface,        \* circles on the bitmap: [x, y, fresh]
    last,           \* what the most recent handler did
    erasedStale,    \* the most recent frame's clear removed earlier circles
    pointer,        \* the last mouse handler run: "initial", "present", "left"
    paused,         \* the loop stopped on an unavailable surface, no frame since
    cellIn,         \* one grid cell and its two noise samples: [x, y, base, turb]
    cellOut,        \* the values animate computed for it, latest two pointers
    PERM,           \* the permutation table (a module-level array)
    GRAD3,          \* the gradient table (a module-level array of arrays)
    noiseIn,        \* arguments of the latest simplex3 call, <<>> for none
    noiseOut,       \* its result: [value, top], <<>> for none
    noiseMemo,      \* for each probe point, the first value returned for it
    variant,        \* the Loader source: "slide" (Loader.tsx), "glitch"
    commit,         \* React's progress: "none", "first", "cleaned", "live"
    timelines,      \* Loader: one [tl, val, exit, at] per run of its effect
    loaderCalls,    \* the onComplete calls made by the Loader, in order
    lenises,        \* the Lenis instances created: [stopped, destroyed]
    lenisRef,       \* lenisRef.current: an index in lenises, 0 for null
    ticker,         \* instances whose raf callback is on gsap.ticker
    bodyOverflow,   \* document.body.style.overflow
    isMenuOpen,     \* App state
    selectedProject,\* App state: {} for null, {index} otherwise
    modalShown,     \* ProjectModal: its element is displayed
    closing,        \* ProjectModal: the close tween is running
    isPlaying,      \* AmbientSound state
    audioCtx,       \* audioCtxRef.current: "none", "running", "suspended"
    gainTarget,     \* the master gain's ramp target (0 or 1)
    filterTarget,   \* the noise filter's frequency target, 0 before creation
    suspendTimers,  \* pending setTimeout(() => ctx.suspend(), 600)
    toggled,        \* toggleSound has been called
    mood,           \* MoodProvider state, "" while no provider is mounted
    moodQueue,      \* its pending state updates: a mood name or "cycle"
    stored,         \* localStorage 'khaotic-mood', "" for no item
    bodyMood,       \* data-mood of document.body, "" for no attribute
    htmlMood,       \* data-mood of document.documentElement
    cycleFrom,      \* the mood the latest mount or setMood call asked for
    cycleCount,     \* cycleMood calls made since then
    moodCalled,     \* setMood or cycleMood was called since the mount
    overlaySource,  \* the MenuOverlay source: "current", "original", "routed"
    routedCommit,   \* the routed App is mounted
    routedMenuOpen, \* routed App state isMenuOpen, MenuOverlay's isOpen
    overlayDisplay, \* overlay.style.display, "" for the class's display none
    overlayVisibility, \* overlay.style.visibility, "" while unset
    fadeOuts,       \* running fade-out tweens of the overlay
    selectedProjectIndex, \* routed App state: {} for null, {index} otherwise
    isModalVisible, \* routed App state
    nullTimers      \* pending setTimeout(() => setSelectedProjectIndex(null))

heroVars == <<mounted, canvasRef, containerRef, ctxRef, dpr, canvasW, canvasH,
              ctxScale, mouse, rafRef, pending, ops, surface, last,
              erasedStale, pointer, paused>>

cellVars == <<cellIn, cellOut>>

tableVars == <<PERM, GRAD3>>

noiseVars == <<noiseIn, noiseOut, noiseMemo>>

loaderVars == <<variant, timelines, loaderCalls>>

lenisVars == <<lenises, lenisRef, ticker, bodyOverflow>>

menuVars == <<isMenuOpen, selectedProject, modalShown, closing>>

soundVars == <<isPlaying, audioCtx, gainTarget, filterTarget, suspendTimers,
               toggled>>

appVars == <<commit, loaderVars, lenisVars, menuVars, soundVars>>

moodVars == <<mood, moodQueue, stored, bodyMood, htmlMood, cycleFrom,
              cycleCount, moodCalled>>

routedVars == <<overlaySource, routedCommit, routedMenuOpen, overlayDisplay,
                overlayVisibility, fadeOuts, selectedProjectIndex,
                isModalVisible, nullTimers>>

\* the mood provider and the routed App
lateVars == <<moodVars, routedVars>>

\* everything outside the HeroCanvas effect and its frame loop
nonHeroVars == <<cellVars, tableVars, noiseVars, appVars, lateVars>>

vars == <<heroVars, nonHeroVars>>

----------------------------------------------------------------------------
(* Program constants *)

DOT_SPACING == 20

\* BASE_DOT_RADIUS = 1.2, in tenths
BASE_DOT_RADIUS == 12

MOUSE_INFLUENCE_RADIUS == 250

SENTINEL == -9999

(* Bounds of the model *)

\* number of distinct animation-frame handles the browser hands out
MaxRafId == 3

\* container sizes getBoundingClientRect can report (CSS pixels)
Rects == { <<0, 0>>, <<0, 40>>, <<40, 0>>, <<30, 50>>, <<100, 100>> }

\* pointer positions a mousemove can report, relative to the canvas
MousePoints == { <<40, 40>>, <<300, 0>>, <<-400, 20>> }

PixelRatios == {1, 2}

\* a noise sample n in [-1, 1] is the integer n * NoiseDen
NoiseDen == 10

\* noise samples the single-cell study draws: -1, -1/2, 0, 1/2, 1
NoiseLevels ==
    {-NoiseDen, -(NoiseDen \div 2), 0, NoiseDen \div 2, NoiseDen}

\* grid cells of the single-cell study (multiples of DOT_SPACING)
CellPoints == { <<0, 0>>, <<100, 100>>, <<40, 60>> }

\* pointer positions of the single-cell study; the last is the sentinel
CellPointers ==
    { <<0, 0>>, <<100, 100>>, <<230, 0>>, <<240, 0>>, <<250, 0>>,
      <<SENTINEL, SENTINEL>> }

----------------------------------------------------------------------------
(* Arithmetic helpers *)

Max(a, b) == IF a >= b THEN a ELSE b

\* Math.ceil(a / b) for a >= 0, b > 0
CeilDiv(a, b) == (a + b - 1) \div b

\* bisection for the largest r in lo..hi with r * r <= n
IsqrtIter[n \in Nat, lo \in Nat, hi \in Nat] ==
    IF lo >= hi THEN lo
    ELSE LET mid == (lo + hi + 1) \div 2
         IN  IF mid * mid <= n THEN IsqrtIter[n, mid, hi]
                               ELSE IsqrtIter[n, lo, mid - 1]

\* Math.sqrt, rounded down
Isqrt(n) == IsqrtIter[n, 0, 46340]

----------------------------------------------------------------------------
(* Simplex noise.  Arithmetic is fixed point: an argument is an integer     *)
(* count of 1/NoiseGrid, offsets inside a lattice cell are counts of        *)
(* 1/(6 * NoiseGrid) (so that F3 = 1/3 and G3 = 1/6 are exact), a kernel    *)
(* weight keeps Fix decimal steps and the result is a count of 1/(Fix*Fix). *)

\* arguments are multiples of 1 / NoiseGrid
NoiseGrid == 5

\* arguments lie within NoiseSpan lattice units of an origin
NoiseSpan == 2

\* kernel weights are rounded down to multiples of 1 / Fix
Fix == 10000

\* the result 1.0
NoiseOne == Fix * Fix

\* one lattice unit, as a count of offsets
Unit == 6 * NoiseGrid

\* const p = [ ... ]
PermSource ==
    <<
       151, 160, 137, 91, 90, 15, 131, 13, 201, 95, 96, 53, 194, 233, 7, 225,
       140, 36, 103, 30, 69, 142, 8, 99, 37, 240, 21, 10, 23, 190, 6, 148,
       247, 120, 234, 75, 0, 26, 197, 62, 94, 252, 219, 203, 117, 35, 11, 32,
       57, 177, 33, 88, 237, 149, 56, 87, 174, 20, 125, 136, 171, 168, 68, 175,
       74, 165, 71, 134, 139, 48, 27, 166, 77, 146, 158, 231, 83, 111, 229, 122,
       60, 211, 133, 230, 220, 105, 92, 41, 55, 46, 245, 40, 244, 102, 143, 54,
       65, 25, 63, 161, 1, 216, 80, 73, 209, 76, 132, 187, 208, 89, 18, 169,
       200, 196, 135, 130, 116, 188, 159, 86, 164, 100, 109, 198, 173, 186, 3, 64,
       52, 217, 226, 250, 124, 123, 5, 202, 38, 147, 118, 126, 255, 82, 85, 212,
       207, 206, 59, 227, 47, 16, 58, 17, 182, 189, 28, 42, 223, 183, 170, 213,
       119, 248, 152, 2, 44, 154, 163, 70, 221, 153, 101, 155, 167, 43, 172, 9,
       129, 22, 39, 253, 19, 98, 108, 110, 79, 113, 224, 232, 178, 185, 112, 104,
       218, 246, 97, 228, 251, 34, 242, 193, 238, 210, 144, 12, 191, 179, 162, 241,
       81, 51, 145, 235, 249, 14, 239, 107, 49, 192, 214, 31, 181, 199, 106, 157,
       184, 84, 204, 176, 115, 121, 50, 45, 127, 4, 150, 254, 138, 236, 205, 93,
       222, 114, 67, 29, 24, 72, 243, 141, 128, 195, 78, 66, 215, 61, 156, 180
    >>

\* mutant: the table is not doubled
PermSingle == PermSource

\* return [...p, ...p]
PermDoubled == PermSource \o PermSource

Grad3Table ==
    << <<1, 1, 0>>, <<-1, 1, 0>>, <<1, -1, 0>>, <<-1, -1, 0>>,
       <<1, 0, 1>>, <<-1, 0, 1>>, <<1, 0, -1>>, <<-1, 0, -1>>,
       <<0, 1, 1>>, <<0, -1, 1>>, <<0, 1, -1>>, <<0, -1, -1>> >>

\* array[i] with JavaScript's indices from 0
At(array, i) == array[i + 1]

\* g[0] * x + g[1] * y + g[2] * z
Dot3(g, x, y, z) == At(g, 0) * x + At(g, 1) * y + At(g, 2) * z

\* i & 255
And255(i) == i % 256

\* the indices read by PERM[ii + PERM[jj + PERM[kk]]], innermost first
HashReads(ii, jj, kk) ==
    <<kk, jj + At(PERM, kk), ii + At(PERM, jj + At(PERM, kk))>>

\* PERM[ii + PERM[jj + PERM[kk]]] % 12
GradIndex(ii, jj, kk) == At(PERM, HashReads(ii, jj, kk)[3]) % 12

\* 5 * (0.6 - x * x - y * y - z * z), in squared offsets
KernelT(x, y, z) == 108 * NoiseGrid * NoiseGrid - 5 * (x * x + y * y + z * z)

\* t *= t; ... t * t: the fourth power of the kernel value
KernelWeight(t5) ==
    LET t == (t5 * Fix) \div (180 * NoiseGrid * NoiseGrid)
        tt == (t * t) \div Fix
    IN  tt * tt

\* one corner's contribution: 0 outside the kernel radius
Corner(x, y, z, ii, jj, kk) ==
    IF KernelT(x, y, z) >= 0
    THEN KernelWeight(KernelT(x, y, z))
             * Dot3(At(GRAD3, GradIndex(ii, jj, kk)), x, y, z)
    ELSE 0

\* the largest index read in PERM by a corner inside the kernel radius
CornerTop(x, y, z, ii, jj, kk) ==
    IF KernelT(x, y, z) >= 0
    THEN LET r == HashReads(ii, jj, kk)
         IN  Max(r[1], Max(r[2], r[3]))
    ELSE 0

\* which simplex of the cell: <<i1, j1, k1, i2, j2, k2>>
SimplexOrder(x0, y0, z0) ==
    IF x0 >= y0
    THEN IF y0 >= z0 THEN <<1, 0, 0, 1, 1, 0>>
         ELSE IF x0 >= z0 THEN <<1, 0, 0, 1, 0, 1>>
         ELSE <<0, 0, 1, 1, 0, 1>>
    ELSE IF y0 < z0 THEN <<0, 0, 1, 0, 1, 1>>
         ELSE IF x0 < z0 THEN <<0, 1, 0, 0, 1, 1>>
         ELSE <<0, 1, 0, 1, 1, 0>>

\* the four corners of the simplex around (xin, yin, zin):
\* <<x, y, z, ii, jj, kk>> each, offsets and hashing indices
Corners(xin, yin, zin) ==
    LET s3 == xin + yin + zin                      \* 3 * s
        i == (3 * xin + s3) \div (3 * NoiseGrid)   \* Math.floor(xin + s)
        j == (3 * yin + s3) \div (3 * NoiseGrid)
        k == (3 * zin + s3) \div (3 * NoiseGrid)
        t == (i + j + k) * NoiseGrid               \* (i + j + k) * G3
        x0 == 6 * xin - (i * Unit - t)             \* xin - X0
        y0 == 6 * yin - (j * Unit - t)
        z0 == 6 * zin - (k * Unit - t)
        o == SimplexOrder(x0, y0, z0)
        g == NoiseGrid                             \* G3
        ii == And255(i)
        jj == And255(j)
        kk == And255(k)
    IN  << <<x0, y0, z0, ii, jj, kk>>,
           <<x0 - o[1] * Unit + g, y0 - o[2] * Unit + g, z0 - o[3] * Unit + g,
             ii + o[1], jj + o[2], kk + o[3]>>,
           <<x0 - o[4] * Unit + 2 * g, y0 - o[5] * Unit + 2 * g,
             z0 - o[6] * Unit + 2 * g, ii + o[4], jj + o[5], kk + o[6]>>,
           <<x0 - Unit + 3 * g, y0 - Unit + 3 * g, z0 - Unit + 3 * g,
             ii + 1, jj + 1, kk + 1>> >>

\* mutant: the scale factor of the 2D variant
ScaleSeventy(n) == 70 * (n \div Unit)

\* 32.0 * (n0 + n1 + n2 + n3), from offsets to a count of 1 / NoiseOne
Scale(n) == 32 * (n \div Unit)

\* simplex3(xin, yin, zin)
Simplex3(xin, yin, zin) ==
    LET c == Corners(xin, yin, zin)
        n == [q \in 1..4 |->
                 Corner(c[q][1], c[q][2], c[q][3], c[q][4], c[q][5], c[q][6])]
    IN  Scale(n[1] + n[2] + n[3] + n[4])

\* the largest index simplex3(xin, yin, zin) reads in PERM
Simplex3Top(xin, yin, zin) ==
    LET c == Corners(xin, yin, zin)
        n == [q \in 1..4 |->
                 CornerTop(c[q][1], c[q][2], c[q][3], c[q][4], c[q][5], c[q][6])]
    IN  Max(Max(n[1], n[2]), Max(n[3], n[4]))

----------------------------------------------------------------------------
(* animate: the per-cell computation *)

\* dist = Math.sqrt(dx * dx + dy * dy)
Dist(x, y, m) ==
    LET dx == x - m.x
        dy == y - m.y
    IN  Isqrt(dx * dx + dy * dy)

\* mutant: the fall-off reaches 0 at twice the influence radius
ProximityWideRadius(dist) == Max(0, MOUSE_INFLUENCE_RADIUS - dist \div 2)

\* proximity = Math.max(0, 1 - dist / MOUSE_INFLUENCE_RADIUS),
\* as a numerator over MOUSE_INFLUENCE_RADIUS
Proximity(dist) == Max(0, MOUSE_INFLUENCE_RADIUS - dist)

\* mutant: the turbulence layer is sampled for every cell
TurbulenceAlways(proximity) == TRUE

\* the turbulence layer is sampled only when proximity > 0
TurbulenceSampled(proximity) == proximity > 0

\* the simplex3 calls made for one cell, in order
NoiseSamples(proximity) ==
    IF TurbulenceSampled(proximity) THEN <<"base", "turbulence">>
                                    ELSE <<"base">>

\* mutant: the pointer captured when the effect was created, not the slot
ReadPointerStale == [x |-> SENTINEL, y |-> SENTINEL]

\* mx = mouseRef.current.x; my = mouseRef.current.y
ReadPointer == mouse

\* mutant: the grid loses its last column
ColsNoExtra(w) == CeilDiv(w, DOT_SPACING)

Cols(w) == CeilDiv(w, DOT_SPACING) + 1

Rows(h) == CeilDiv(h, DOT_SPACING) + 1

\* one iteration of the inner loop: beginPath / arc / fillStyle / fill
Cell(row, col, m) ==
    LET x == col * DOT_SPACING
        y == row * DOT_SPACING
        proximity == Proximity(Dist(x, y, m))
    IN  [op |-> "arc", x |-> x, y |-> y, mx |-> m.x, my |-> m.y,
         proximity |-> proximity, samples |-> NoiseSamples(proximity)]

\* ctx.clearRect(0, 0, w, h)
ClearOp(w, h) == [op |-> "clearRect", w |-> w, h |-> h]

\* mutant: the clear is issued after the grid loop
FrameOpsClearLast(w, h, m) ==
    LET cols == Cols(w)
        rows == Rows(h)
    IN  [i \in 1..(rows * cols) |->
            Cell((i - 1) \div cols, (i - 1) % cols, m)] \o
        <<ClearOp(w, h)>>

\* the paint calls of one frame: the clear, then the row-major grid loop
FrameOps(w, h, m) ==
    LET cols == Cols(w)
        rows == Rows(h)
    IN  <<ClearOp(w, h)>> \o
        [i \in 1..(rows * cols) |->
            Cell((i - 1) \div cols, (i - 1) % cols, m)]

----------------------------------------------------------------------------
(* animate: the visual attributes of one cell.  Real numbers are exact      *)
(* fractions: each operator returns the numerator over the denominator      *)
(* named beside it.                                                         *)

Min(a, b) == IF a <= b THEN a ELSE b

\* denominator of turbulence and noiseVal
NoiseValDen == 10 * MOUSE_INFLUENCE_RADIUS * NoiseDen

\* turbulence = proximity > 0 ? simplex3(...) * proximity * 0.6 : 0
Turbulence(proximity, turbSample) ==
    IF TurbulenceSampled(proximity) THEN turbSample * proximity * 6 ELSE 0

\* noiseVal = baseNoise + turbulence
NoiseVal(baseNoise, turbulence) ==
    baseNoise * 10 * MOUSE_INFLUENCE_RADIUS + turbulence

BrightnessDen == 2 * NoiseValDen

\* brightness = (noiseVal + 1) * 0.5
Brightness(noiseVal) == noiseVal + NoiseValDen

\* denominator of baseAlpha, cursorBoost and alpha
AlphaDen == 500 * BrightnessDen

\* baseAlpha = 0.08 + brightness * 0.27
BaseAlpha(brightness) == 5 * (8 * BrightnessDen + 27 * brightness)

\* mutant: the boost grows with the distance, not with the proximity
CursorBoostByDistance(proximity) ==
    24 * NoiseDen * (MOUSE_INFLUENCE_RADIUS - proximity)
                  * (MOUSE_INFLUENCE_RADIUS - proximity)

\* cursorBoost = proximity * proximity * 0.6
CursorBoost(proximity) == 24 * NoiseDen * proximity * proximity

\* mutant: no Math.min(1, ...)
AlphaUnclamped(baseAlpha, cursorBoost) == baseAlpha + cursorBoost

\* alpha = Math.min(1, baseAlpha + cursorBoost)
Alpha(baseAlpha, cursorBoost) == Min(AlphaDen, baseAlpha + cursorBoost)

RadiusDen == 10 * BrightnessDen

\* mutant: the proximity term is missing
RadiusNoProximity(brightness, proximity) ==
    BASE_DOT_RADIUS * BrightnessDen + 8 * brightness

\* radius = BASE_DOT_RADIUS + brightness * 0.8 + proximity * 2.5
Radius(brightness, proximity) ==
    BASE_DOT_RADIUS * BrightnessDen + 8 * brightness
        + 500 * NoiseDen * proximity

\* the values the inner loop computes for the cell at (x, y) with the pointer
\* at m, given the two simplex3 samples
CellValues(x, y, m, baseNoise, turbSample) ==
    LET dx == x - m.x
        dy == y - m.y
        proximity == Proximity(Dist(x, y, m))
        noiseVal == NoiseVal(baseNoise, Turbulence(proximity, turbSample))
        brightness == Brightness(noiseVal)
    IN  [mx |-> m.x, my |-> m.y, dd |-> dx * dx + dy * dy,
         proximity |-> proximity, noiseVal |-> noiseVal,
         brightness |-> brightness,
         alpha |-> Alpha(BaseAlpha(brightness), CursorBoost(proximity)),
         radius |-> Radius(brightness, proximity)]

----------------------------------------------------------------------------
(* The bitmap *)

\* clearRect erases the whole bitmap when the rectangle, under the current
\* transform, covers it
ClearRect(surf, op) ==
    IF ctxScale * op.w >= canvasW /\ ctxScale * op.h >= canvasH
    THEN {}
    ELSE surf

RECURSIVE Paint(_, _, _)
Paint(surf, o, i) ==
    IF i > Len(o) THEN surf
    ELSE IF o[i].op = "clearRect"
         THEN Paint(ClearRect(surf, o[i]), o, i + 1)
         ELSE Paint(surf \cup {[x |-> o[i].x, y |-> o[i].y, fresh |-> TRUE]},
                    o, i + 1)

\* what an earlier frame painted is stale when a new frame starts
Stale(surf) == {[x |-> c.x, y |-> c.y, fresh |-> FALSE] : c \in surf}

----------------------------------------------------------------------------
(* The browser's animation-frame table *)

FreeIds(q) == {id \in 1..MaxRafId : id \notin q /\ id # rafRef}

\* requestAnimationFrame(animate): a handle that is not in use
RequestAnimationFrame(q) ==
    CHOOSE id \in FreeIds(q) : \A other \in FreeIds(q) : id <= other

\* mutant: the cleanup's cancel has no effect
CancelNothing(q, id) == q

\* cancelAnimationFrame(id)
CancelAnimationFrame(q, id) == q \ {id}

----------------------------------------------------------------------------
\* the component before its effect has run
HeroInit ==
    /\ mounted = FALSE
    /\ canvasRef = TRUE
    /\ containerRef = TRUE
    /\ ctxRef = FALSE
    /\ dpr \in PixelRatios
    /\ canvasW = 300
    /\ canvasH = 150
    /\ ctxScale = 1
    /\ mouse = [x |-> SENTINEL, y |-> SENTINEL]
    /\ rafRef = 0
    /\ pending = {}
    /\ ops = <<>>
    /\ surface = {}
    /\ last = "init"
    /\ erasedStale = FALSE
    /\ pointer = "initial"
    /\ paused = FALSE

\* no single cell is under study
CellIdle ==
    /\ cellIn = <<>>
    /\ cellOut = <<>>

\* the module-level tables as their initialisers leave them
TablesInit ==
    /\ PERM = PermDoubled
    /\ GRAD3 = Grad3Table

\* no simplex3 call is under study
NoiseIdle ==
    /\ noiseIn = <<>>
    /\ noiseOut = <<>>
    /\ noiseMemo = <<>>

\* mutant: the sound starts switched on
IsPlayingInitialOn == TRUE

\* useState(false) in AmbientSound
IsPlayingInitial == FALSE

\* the App tree before its first commit
AppStart ==
    /\ commit = "none"
    /\ timelines = <<>>
    /\ loaderCalls = <<>>
    /\ lenises = <<>>
    /\ lenisRef = 0
    /\ ticker = {}
    /\ bodyOverflow = ""
    /\ isMenuOpen = FALSE
    /\ selectedProject = {}
    /\ modalShown = FALSE
    /\ closing = FALSE
    /\ isPlaying = IsPlayingInitial
    /\ audioCtx = "none"
    /\ gainTarget = 0
    /\ filterTarget = 0
    /\ suspendTimers = 0
    /\ toggled = FALSE

\* the App tree before its first commit, with the Loader of Loader.tsx
\* no MoodProvider yet and nothing in storage
MoodIdle ==
    /\ mood = ""
    /\ moodQueue = <<>>
    /\ stored = ""
    /\ bodyMood = ""
    /\ htmlMood = ""
    /\ cycleFrom = ""
    /\ cycleCount = 0
    /\ moodCalled = FALSE

\* the routed App before its first commit: useState(false), useState(null),
\* the overlay element with class "hidden"
RoutedStart ==
    /\ routedCommit = FALSE
    /\ routedMenuOpen = FALSE
    /\ overlayDisplay = ""
    /\ overlayVisibility = ""
    /\ fadeOuts = 0
    /\ selectedProjectIndex = {}
    /\ isModalVisible = FALSE
    /\ nullTimers = 0

RoutedIdle == overlaySource = "routed" /\ RoutedStart

LateIdle == MoodIdle /\ RoutedIdle

AppIdle == variant = "slide" /\ AppStart /\ LateIdle

Init ==
    /\ HeroInit
    /\ CellIdle
    /\ TablesInit
    /\ NoiseIdle
    /\ AppIdle

----------------------------------------------------------------------------
(* resizeCanvas *)

\* canvas.getContext("2d"): the context once it exists, else it may fail
GetContextResults == IF ctxRef THEN {TRUE} ELSE BOOLEAN

\* mutant: every resize registers a callback
ShouldRestartAlways == TRUE

\* mutant: the loop is started only when the context is first obtained
ShouldRestartFirstContext == rafRef = 0 /\ ~ctxRef

\* if (!rafRef.current) rafRef.current = requestAnimationFrame(animate)
ShouldRestart == rafRef = 0

ResizeCanvas(rect, gotCtx) ==
    IF ~canvasRef \/ ~containerRef
    THEN UNCHANGED <<canvasW, canvasH, ctxScale, ctxRef, rafRef, pending,
                     surface>>
    ELSE /\ canvasW' = rect[1] * dpr
         /\ canvasH' = rect[2] * dpr
         /\ surface' = {}            \* assigning canvas.width clears the bitmap
         /\ IF gotCtx
            THEN /\ ctxScale' = dpr  \* the assignment reset the transform
                 /\ ctxRef' = TRUE
                 /\ IF ShouldRestart /\ FreeIds(pending) # {}
                    THEN /\ rafRef' = RequestAnimationFrame(pending)
                         /\ pending' = pending \cup {rafRef'}
                    ELSE UNCHANGED <<rafRef, pending>>
            ELSE /\ ctxScale' = 1
                 /\ UNCHANGED <<ctxRef, rafRef, pending>>

----------------------------------------------------------------------------
(* The effect *)

Mount ==
    /\ ~mounted
    /\ canvasRef /\ containerRef
    /\ \E rect \in Rects, gotCtx \in GetContextResults :
           ResizeCanvas(rect, gotCtx)
    /\ mounted' = TRUE
    /\ last' = "other"
    /\ UNCHANGED nonHeroVars
    /\ UNCHANGED <<canvasRef, containerRef, dpr, mouse, ops, erasedStale,
                   pointer, paused>>

ResizeObserverCallback ==
    /\ mounted
    /\ \E rect \in Rects, gotCtx \in GetContextResults :
           ResizeCanvas(rect, gotCtx)
    /\ last' = "other"
    /\ UNCHANGED nonHeroVars
    /\ UNCHANGED <<mounted, canvasRef, containerRef, dpr, mouse, ops,
                   erasedStale, pointer, paused>>

Cleanup ==
    /\ mounted
    /\ pending' = CancelAnimationFrame(pending, rafRef)
    /\ rafRef' = 0
    /\ mounted' = FALSE
    /\ last' = "other"
    /\ UNCHANGED nonHeroVars
    /\ UNCHANGED <<canvasRef, containerRef, ctxRef, dpr, canvasW, canvasH,
                   ctxScale, mouse, ops, surface, erasedStale, pointer,
                   paused>>

----------------------------------------------------------------------------
(* animate: one firing of the registered frame callback *)

\* mutant: the early return registers the callback again
AnimatePauseRetry(id) ==
    /\ ~ctxRef \/ ~canvasRef
    /\ FreeIds(pending \ {id}) # {}
    /\ rafRef' = RequestAnimationFrame(pending \ {id})
    /\ pending' = (pending \ {id}) \cup {rafRef'}
    /\ ops' = <<>>
    /\ last' = "pause"
    /\ paused' = TRUE
    /\ UNCHANGED <<surface, mouse, erasedStale>>

\* the early return: no paint call, no new callback, rafRef.current = 0
AnimatePause(id) ==
    /\ ~ctxRef \/ ~canvasRef
    /\ rafRef' = 0
    /\ pending' = pending \ {id}
    /\ ops' = <<>>
    /\ last' = "pause"
    /\ paused' = TRUE
    /\ UNCHANGED <<surface, mouse, erasedStale>>

\* a rendered frame, ending with rafRef.current = requestAnimationFrame(animate)
AnimateRender(id) ==
    /\ ctxRef /\ canvasRef
    /\ FreeIds(pending \ {id}) # {}
    /\ LET w == canvasW \div dpr
           h == canvasH \div dpr
           m == ReadPointer
       IN  ops' = FrameOps(w, h, m)
    /\ surface' = Paint(Stale(surface), ops', 1)
    /\ erasedStale' = (Stale(surface) \ surface' # {})
    /\ rafRef' = RequestAnimationFrame(pending \ {id})
    /\ pending' = (pending \ {id}) \cup {rafRef'}
    /\ last' = "frame"
    /\ paused' = FALSE
    /\ UNCHANGED mouse

AnimateFrame ==
    /\ \E id \in pending : AnimatePause(id) \/ AnimateRender(id)
    /\ UNCHANGED nonHeroVars
    /\ UNCHANGED <<mounted, canvasRef, containerRef, ctxRef, dpr, canvasW,
                   canvasH, ctxScale, pointer>>

----------------------------------------------------------------------------
(* Mouse tracking: the listeners are on the container while mounted *)

HandleMouseMove(p) ==
    IF canvasRef THEN [x |-> p[1], y |-> p[2]] ELSE mouse

\* mutant: mouseleave leaves the slot as it is
HandleMouseLeaveKeep == mouse

HandleMouseLeave == [x |-> SENTINEL, y |-> SENTINEL]

MouseMove ==
    /\ mounted /\ containerRef
    /\ \E p \in MousePoints : mouse' = HandleMouseMove(p)
    /\ pointer' = "present"
    /\ last' = "other"
    /\ UNCHANGED nonHeroVars
    /\ UNCHANGED <<mounted, canvasRef, containerRef, ctxRef, dpr, canvasW,
                   canvasH, ctxScale, rafRef, pending, ops, surface, erasedStale,
                   paused>>

MouseLeave ==
    /\ mounted /\ containerRef
    /\ mouse' = HandleMouseLeave
    /\ pointer' = "left"
    /\ last' = "other"
    /\ UNCHANGED nonHeroVars
    /\ UNCHANGED <<mounted, canvasRef, containerRef, ctxRef, dpr, canvasW,
                   canvasH, ctxScale, rafRef, pending, ops, surface, erasedStale,
                   paused>>

----------------------------------------------------------------------------
(* React's handling of the element refs *)

\* the commit that removes the elements sets both refs to null
ReactDetachRefs ==
    /\ canvasRef /\ containerRef
    /\ canvasRef' = FALSE
    /\ containerRef' = FALSE
    /\ last' = "other"
    /\ UNCHANGED nonHeroVars
    /\ UNCHANGED <<mounted, ctxRef, dpr, canvasW, canvasH, ctxScale, mouse,
                   rafRef, pending, ops, surface, erasedStale, pointer,
                   paused>>

\* a later commit attaches them again, after the pending cleanup has run
ReactAttachRefs ==
    /\ ~mounted
    /\ ~canvasRef /\ ~containerRef
    /\ canvasRef' = TRUE
    /\ containerRef' = TRUE
    /\ last' = "other"
    /\ UNCHANGED nonHeroVars
    /\ UNCHANGED <<mounted, ctxRef, dpr, canvasW, canvasH, ctxScale, mouse,
                   rafRef, pending, ops, surface, erasedStale, pointer,
                   paused>>

----------------------------------------------------------------------------
Next ==
    \/ Mount
    \/ ResizeObserverCallback
    \/ Cleanup
    \/ AnimateFrame
    \/ MouseMove
    \/ MouseLeave
    \/ ReactDetachRefs
    \/ ReactAttachRefs

Spec == Init /\ [][Next]_vars

\* the browser runs a registered animation-frame callback
FairSpec == Spec /\ WF_vars(AnimateFrame)

----------------------------------------------------------------------------
(* One cell of the grid, computed for several pointer positions at one time *)
(* (the two noise samples depend only on the cell and the time)            *)

\* the component with its effect not yet run and a pixel ratio of 1
HeroIdle == HeroInit /\ dpr = 1

CellInit ==
    /\ \E c \in CellPoints, b \in NoiseLevels, t \in NoiseLevels :
           cellIn = [x |-> c[1], y |-> c[2], base |-> b, turb |-> t]
    /\ cellOut = <<>>
    /\ HeroIdle
    /\ TablesInit
    /\ NoiseIdle
    /\ AppIdle

\* the body of the inner loop for this cell, with the pointer at m
AnimateCell ==
    /\ \E p \in CellPointers :
           LET r == CellValues(cellIn.x, cellIn.y, [x |-> p[1], y |-> p[2]],
                               cellIn.base, cellIn.turb)
           IN  cellOut' = IF Len(cellOut) < 2 THEN Append(cellOut, r)
                                              ELSE <<cellOut[2], r>>
    /\ UNCHANGED <<cellIn, heroVars, tableVars, noiseVars, appVars, lateVars>>

CellNext == AnimateCell

CellSpec == CellInit /\ [][CellNext]_vars

----------------------------------------------------------------------------
(* simplex3 on its own: one call per argument triple of a bounded grid *)

\* lattice origins the arguments are taken around: the table's start, its
\* wrap-around at 255 -> 256, negative and large coordinates
NoiseOrigins == { <<0, 0, 0>>, <<254, -2, 10000>> }

NoiseOffsets == (-(NoiseSpan * NoiseGrid))..(NoiseSpan * NoiseGrid)

NoiseInit ==
    /\ \E o \in NoiseOrigins, a \in NoiseOffsets, b \in NoiseOffsets,
          c \in NoiseOffsets :
           noiseIn = <<o[1] * NoiseGrid + a, o[2] * NoiseGrid + b,
                       o[3] * NoiseGrid + c>>
    /\ noiseOut = <<>>
    /\ noiseMemo = <<>>
    /\ TablesInit
    /\ HeroIdle
    /\ CellIdle
    /\ AppIdle

\* simplex3(x, y, z) is called and returns
Simplex3Call ==
    /\ noiseOut = <<>>
    /\ noiseOut' = [value |-> Simplex3(noiseIn[1], noiseIn[2], noiseIn[3]),
                    top |-> Simplex3Top(noiseIn[1], noiseIn[2], noiseIn[3])]
    /\ UNCHANGED <<noiseIn, noiseMemo, tableVars, heroVars, cellVars, appVars,
                   lateVars>>

NoiseNext == Simplex3Call

NoiseSpec == NoiseInit /\ [][NoiseNext]_vars

----------------------------------------------------------------------------
(* simplex3 called between the handlers of the component: the tables are    *)
(* module-level arrays, shared by every call and every frame               *)

\* argument triples sampled repeatedly (counts of 1 / NoiseGrid)
ProbePoints == { <<3, 4, -7>>, <<1273, -6, 49993>> }

PureInit ==
    /\ HeroIdle
    /\ CellIdle
    /\ TablesInit
    /\ noiseIn = <<>>
    /\ noiseOut = <<>>
    /\ noiseMemo = [p \in ProbePoints |-> <<>>]
    /\ AppIdle

\* the first and the latest value returned for one argument triple
Remember(seen, value) ==
    IF seen = <<>> THEN <<value>> ELSE <<seen[1], value>>

\* mutant: the call advances the permutation table (a reseed per call)
SampleNoiseReseeding ==
    \E p \in ProbePoints :
        /\ noiseIn' = p
        /\ noiseOut' = [value |-> Simplex3(p[1], p[2], p[3]),
                        top |-> Simplex3Top(p[1], p[2], p[3])]
        /\ noiseMemo' = [noiseMemo EXCEPT
                             ![p] = Remember(noiseMemo[p], noiseOut'.value)]
        /\ PERM' = Tail(PERM) \o <<Head(PERM)>>
        /\ UNCHANGED <<GRAD3, heroVars, cellVars, appVars, lateVars>>

\* one simplex3 call: it reads PERM and GRAD3 and writes nothing
SampleNoise ==
    \E p \in ProbePoints :
        /\ noiseIn' = p
        /\ noiseOut' = [value |-> Simplex3(p[1], p[2], p[3]),
                        top |-> Simplex3Top(p[1], p[2], p[3])]
        /\ noiseMemo' = [noiseMemo EXCEPT
                             ![p] = Remember(noiseMemo[p], noiseOut'.value)]
        /\ UNCHANGED <<tableVars, heroVars, cellVars, appVars, lateVars>>

PureNext ==
    \/ SampleNoise
    \/ Next

PureSpec == PureInit /\ [][PureNext]_vars

----------------------------------------------------------------------------
(* The App tree (src/src/App.tsx): the Loader, useLenis, the menu and      *)
(* project handlers and AmbientSound.  React commits the tree once; under  *)
(* StrictMode (main.tsx) a development build then runs every effect's      *)
(* cleanup and the effects again, synchronously, before any event or      *)
(* animation tick.  The callbacks handed to the Loader are memoised on      *)
(* stable refs, so its effect does not run again later.  GSAP advances all *)
(* running animations together, one step per tick.                         *)

\* ticks the counter tween takes from 0 to 100
CounterSteps == 3

\* ticks of the glitch jitter that precedes the slide in the glitch variant
GlitchSteps == 1

\* ticks the slide off screen takes
SlideSteps == 2

\* pending suspend timers the model follows
MaxSuspendTimers == 2

\* indices into PROJECTS the cards can pass
ProjectIndexes == {0, 1}

\* useLenis(false)
AutoStart == FALSE

\* counter.val after n ticks of the counter tween
CounterVal(n) == (n * 100) \div CounterSteps

\* length of what follows the counter: the slide, or the jitter and the slide
ExitSteps == IF variant = "glitch" THEN GlitchSteps + SlideSteps ELSE SlideSteps

(* Lenis *)

\* lenisRef.current?.start()
LenisStart(ls, ref) ==
    IF ref = 0 THEN ls ELSE [ls EXCEPT ![ref].stopped = FALSE]

\* lenisRef.current?.stop()
LenisStop(ls, ref) ==
    IF ref = 0 THEN ls ELSE [ls EXCEPT ![ref].stopped = TRUE]

\* the effect of useLenis
UseLenisEffect ==
    /\ lenises' = Append(lenises, [stopped |-> ~AutoStart, destroyed |-> FALSE])
    /\ lenisRef' = Len(lenises) + 1
    /\ bodyOverflow' = IF ~AutoStart THEN "hidden" ELSE bodyOverflow
    /\ ticker' = ticker \cup {Len(lenises) + 1}

\* its cleanup: lenis.destroy()
UseLenisCleanup ==
    /\ lenises' = [lenises EXCEPT ![Len(lenises)].destroyed = TRUE]
    /\ UNCHANGED <<lenisRef, ticker, bodyOverflow>>

(* Loader *)

\* the effect of Loader: a timeline with the counter tween
LoaderEffect ==
    timelines' = Append(timelines,
                        [tl |-> "active", val |-> 0, exit |-> "none", at |-> 0])

\* mutant: the cleanup kills nothing
KillNothing(r) == r

\* tl.kill(), and in Loader.tsx gsap.killTweensOf(loaderEl)
KillOnCleanup(r) ==
    [r EXCEPT !.tl = IF @ = "active" THEN "killed" ELSE @,
              !.exit = IF variant = "slide" /\ @ = "active" THEN "killed"
                       ELSE @]

LoaderCleanup ==
    timelines' = [timelines EXCEPT ![Len(timelines)] = KillOnCleanup(@)]

\* one tick of one run's animations: the counter tween, whose completion
\* starts the exit, or the exit
Advance(r) ==
    IF r.tl = "active"
    THEN IF r.val + 1 = CounterSteps
         THEN [r EXCEPT !.val = CounterSteps, !.tl = "done", !.exit = "active"]
         ELSE [r EXCEPT !.val = r.val + 1]
    ELSE IF r.exit = "active"
         THEN IF r.at + 1 = ExitSteps
              THEN [r EXCEPT !.at = ExitSteps, !.exit = "done"]
              ELSE [r EXCEPT !.at = r.at + 1]
         ELSE r

\* the runs whose exit completes in the coming tick, so that onComplete() runs
Completing == {i \in DOMAIN timelines :
                  timelines[i].exit = "active" /\ timelines[i].at + 1 = ExitSteps}

\* what the Loader's onComplete call found: counter value, slide finished
CallRecord(r) == [val |-> CounterVal(r.val), slid |-> r.at = ExitSteps]

RECURSIVE CallsOf(_, _)
CallsOf(runs, tls) ==
    IF runs = {} THEN <<>>
    ELSE LET i == CHOOSE m \in runs : \A n \in runs : m <= n
         IN  <<CallRecord(tls[i])>> \o CallsOf(runs \ {i}, tls)

(* AmbientSound *)

\* the muffling effect: the noise filter's frequency target afterwards
MuffleEffect(menuOpen, playing, ctx, current) ==
    IF ~playing \/ ctx = "none" THEN current
    ELSE IF menuOpen THEN 80 ELSE 200

AppInit ==
    /\ variant \in {"slide", "glitch"}
    /\ AppStart
    /\ LateIdle
    /\ HeroIdle
    /\ CellIdle
    /\ TablesInit
    /\ NoiseIdle

notAppVars == <<heroVars, cellVars, tableVars, noiseVars, lateVars>>

\* the first commit: the effects of the tree run
AppMount ==
    /\ commit = "none"
    /\ LoaderEffect
    /\ UseLenisEffect
    /\ filterTarget' = MuffleEffect(isMenuOpen, isPlaying, audioCtx, filterTarget)
    /\ \E strict \in BOOLEAN : commit' = IF strict THEN "first" ELSE "live"
    /\ UNCHANGED <<variant, loaderCalls, menuVars, isPlaying, audioCtx,
                   gainTarget, suspendTimers, toggled, notAppVars>>

\* StrictMode: the cleanups of the effects just run
StrictCleanup ==
    /\ commit = "first"
    /\ LoaderCleanup
    /\ UseLenisCleanup
    /\ commit' = "cleaned"
    /\ UNCHANGED <<variant, loaderCalls, menuVars, soundVars, notAppVars>>

\* StrictMode: the effects run again
StrictRemount ==
    /\ commit = "cleaned"
    /\ LoaderEffect
    /\ UseLenisEffect
    /\ filterTarget' = MuffleEffect(isMenuOpen, isPlaying, audioCtx, filterTarget)
    /\ commit' = "live"
    /\ UNCHANGED <<variant, loaderCalls, menuVars, isPlaying, audioCtx,
                   gainTarget, suspendTimers, toggled, notAppVars>>

\* handleLoaderComplete
HandleLoaderComplete ==
    /\ lenises' = LenisStart(lenises, lenisRef)
    /\ bodyOverflow' = "auto"

\* one tick of gsap.ticker: every running animation advances; an exit that
\* completes calls onComplete()
GsapTick ==
    /\ commit = "live"
    /\ \E i \in DOMAIN timelines :
           timelines[i].tl = "active" \/ timelines[i].exit = "active"
    /\ timelines' = [i \in DOMAIN timelines |-> Advance(timelines[i])]
    /\ loaderCalls' = loaderCalls \o CallsOf(Completing, timelines')
    /\ IF Completing # {} THEN HandleLoaderComplete
                           ELSE UNCHANGED <<lenises, bodyOverflow>>
    /\ UNCHANGED <<commit, variant, lenisRef, ticker, menuVars, soundVars,
                   notAppVars>>

\* handleMenuToggle, and the muffling effect of the render that follows
HandleMenuToggle ==
    /\ commit = "live"
    /\ isMenuOpen' = ~isMenuOpen
    /\ lenises' = IF ~isMenuOpen THEN LenisStop(lenises, lenisRef)
                                 ELSE LenisStart(lenises, lenisRef)
    /\ filterTarget' = MuffleEffect(isMenuOpen', isPlaying, audioCtx, filterTarget)
    /\ UNCHANGED <<commit, loaderVars, lenisRef, ticker, bodyOverflow,
                   selectedProject, modalShown, closing, isPlaying, audioCtx,
                   gainTarget, suspendTimers, toggled, notAppVars>>

\* handleMenuClose: a link of the open overlay is activated
HandleMenuClose ==
    /\ commit = "live"
    /\ isMenuOpen
    /\ isMenuOpen' = FALSE
    /\ lenises' = LenisStart(lenises, lenisRef)
    /\ filterTarget' = MuffleEffect(isMenuOpen', isPlaying, audioCtx, filterTarget)
    /\ UNCHANGED <<commit, loaderVars, lenisRef, ticker, bodyOverflow,
                   selectedProject, modalShown, closing, isPlaying, audioCtx,
                   gainTarget, suspendTimers, toggled, notAppVars>>

\* handleProjectOpen(index), and ProjectModal's effect on the new project
HandleProjectOpen ==
    /\ commit = "live"
    /\ \E index \in ProjectIndexes :
           /\ selectedProject' = {index}
           /\ modalShown' = IF selectedProject' # selectedProject THEN TRUE
                                                                  ELSE modalShown
    /\ lenises' = LenisStop(lenises, lenisRef)
    /\ UNCHANGED <<commit, loaderVars, lenisRef, ticker, bodyOverflow,
                   isMenuOpen, closing, soundVars, notAppVars>>

\* ProjectModal's handleClose: the close tween starts
ModalCloseClick ==
    /\ commit = "live"
    /\ modalShown /\ ~closing
    /\ closing' = TRUE
    /\ UNCHANGED <<commit, loaderVars, lenisVars, isMenuOpen, selectedProject,
                   modalShown, soundVars, notAppVars>>

\* the close tween completes: display none, then handleProjectClose
HandleProjectClose ==
    /\ commit = "live"
    /\ closing
    /\ closing' = FALSE
    /\ modalShown' = FALSE
    /\ selectedProject' = {}
    /\ lenises' = LenisStart(lenises, lenisRef)
    /\ UNCHANGED <<commit, loaderVars, lenisRef, ticker, bodyOverflow,
                   isMenuOpen, soundVars, notAppVars>>

\* toggleSound, and the muffling effect of the render that follows
ToggleSound ==
    /\ commit = "live"
    /\ toggled' = TRUE
    /\ IF isPlaying
       THEN /\ suspendTimers < MaxSuspendTimers
            /\ gainTarget' = 0
            /\ suspendTimers' = suspendTimers + 1
            /\ isPlaying' = FALSE
            /\ UNCHANGED <<audioCtx, filterTarget>>
       ELSE /\ audioCtx' = "running"
            /\ gainTarget' = 1
            /\ isPlaying' = TRUE
            /\ filterTarget' =
                   MuffleEffect(isMenuOpen, TRUE, "running",
                                IF audioCtx = "none" THEN 200 ELSE filterTarget)
            /\ UNCHANGED suspendTimers
    /\ UNCHANGED <<commit, loaderVars, lenisVars, menuVars, notAppVars>>

\* a timer set by toggleSound fires: ctx.suspend()
SuspendTimerFires ==
    /\ suspendTimers > 0
    /\ suspendTimers' = suspendTimers - 1
    /\ audioCtx' = "suspended"
    /\ UNCHANGED <<commit, loaderVars, lenisVars, menuVars, isPlaying,
                   gainTarget, filterTarget, toggled, notAppVars>>

AppNext ==
    \/ AppMount
    \/ StrictCleanup
    \/ StrictRemount
    \/ GsapTick
    \/ HandleMenuToggle
    \/ HandleMenuClose
    \/ HandleProjectOpen
    \/ ModalCloseClick
    \/ HandleProjectClose
    \/ ToggleSound
    \/ SuspendTimerFires

AppSpec == AppInit /\ [][AppNext]_vars

----------------------------------------------------------------------------
(* MoodProvider (context/MoodContext.tsx)                                  *)
(*                                                                         *)
(* setMoodState only queues an update; React applies the queue when it     *)
(* renders, calling each updater function then, and runs the effect after  *)
(* a render that changed the state.  For an update made while nothing is   *)
(* queued React may compute the new state at once (an optimisation it does *)
(* not promise), so cycleMood's updater runs either in the call or in the  *)
(* render.  StrictMode calls initialisers, updaters and effects twice with *)
(* the same arguments, which repeats the same writes.                      *)

\* updates queued before a render that the model follows
MaxBatch == 3

MOODS == <<"default", "midnight", "ember", "toxic", "ghost">>

MoodNames == {MOODS[i] : i \in 1..Len(MOODS)}

\* what localStorage may hold when a provider mounts for the first time:
\* nothing, a name of the older four-mood hook, a current name
StoredAtStart == {"", "light", "default", "toxic"}

\* MOODS.indexOf(name)
IndexOf(name) ==
    IF name \in MoodNames THEN (CHOOSE i \in 1..Len(MOODS) : MOODS[i] = name) - 1
                          ELSE -1

\* MOODS.includes(saved) ? saved : "default"
InitialMood(saved) == IF saved \in MoodNames THEN saved ELSE "default"

\* mutant: the updater moves two entries on
NextMoodSkipping(prev) == MOODS[((IndexOf(prev) + 2) % Len(MOODS)) + 1]

\* MOODS[(MOODS.indexOf(prev) + 1) % MOODS.length]
NextMood(prev) == MOODS[((IndexOf(prev) + 1) % Len(MOODS)) + 1]

\* the queue applied in order to state s: a name replaces the state, the
\* updater of cycleMood computes the next mood and writes it to the body
\* attribute and to storage
ProcessQueue(queue, s, storage, body) ==
    LET after[k \in 0..Len(queue)] ==
            IF k = 0 THEN [mood |-> s, stored |-> storage, body |-> body]
            ELSE IF queue[k] = "cycle"
                 THEN LET next == NextMood(after[k - 1].mood)
                      IN  [mood |-> next, stored |-> next, body |-> next]
                 ELSE [after[k - 1] EXCEPT !.mood = queue[k]]
    IN  after[Len(queue)]

MoodInit ==
    /\ stored \in StoredAtStart
    /\ mood = ""
    /\ moodQueue = <<>>
    /\ bodyMood = ""
    /\ htmlMood = ""
    /\ cycleFrom = ""
    /\ cycleCount = 0
    /\ moodCalled = FALSE
    /\ RoutedIdle
    /\ HeroIdle
    /\ CellIdle
    /\ TablesInit
    /\ NoiseIdle
    /\ variant = "slide" /\ AppStart

notMoodVars == <<heroVars, cellVars, tableVars, noiseVars, appVars, routedVars>>

\* a MoodProvider mounts in a fresh document (page load): the initialiser
\* reads storage, the effect writes both attributes
MoodMount ==
    /\ mood' = InitialMood(stored)
    /\ moodQueue' = <<>>
    /\ htmlMood' = mood'
    /\ bodyMood' = mood'
    /\ cycleFrom' = mood'
    /\ cycleCount' = 0
    /\ moodCalled' = FALSE
    /\ UNCHANGED <<stored, notMoodVars>>

\* setMood(newMood)
SetMood ==
    /\ mood # ""
    /\ Len(moodQueue) < MaxBatch
    /\ \E newMood \in MoodNames :
           /\ bodyMood' = newMood
           /\ stored' = newMood
           /\ moodQueue' = Append(moodQueue, newMood)
           /\ cycleFrom' = newMood
    /\ cycleCount' = 0
    /\ moodCalled' = TRUE
    /\ UNCHANGED <<mood, htmlMood, notMoodVars>>

\* cycleMood(): the updater is queued, or with nothing queued it may run at
\* once and its result is queued
CycleMood ==
    /\ mood # ""
    /\ Len(moodQueue) < MaxBatch
    /\ cycleCount < Len(MOODS)
    /\ \E eager \in BOOLEAN :
           IF eager /\ moodQueue = <<>>
           THEN LET next == NextMood(mood)
                IN  /\ bodyMood' = next
                    /\ stored' = next
                    /\ moodQueue' = <<next>>
           ELSE /\ moodQueue' = Append(moodQueue, "cycle")
                /\ UNCHANGED <<bodyMood, stored>>
    /\ cycleCount' = cycleCount + 1
    /\ moodCalled' = TRUE
    /\ UNCHANGED <<mood, htmlMood, cycleFrom, notMoodVars>>

\* React renders the provider: the queue is applied, and when the state
\* changed the effect writes both attributes
MoodRender ==
    /\ moodQueue # <<>>
    /\ LET r == ProcessQueue(moodQueue, mood, stored, bodyMood)
       IN  /\ mood' = r.mood
           /\ stored' = r.stored
           /\ bodyMood' = IF r.mood # mood THEN r.mood ELSE r.body
           /\ htmlMood' = IF r.mood # mood THEN r.mood ELSE htmlMood
    /\ moodQueue' = <<>>
    /\ UNCHANGED <<cycleFrom, cycleCount, moodCalled, notMoodVars>>

MoodNext ==
    \/ MoodMount
    \/ SetMood
    \/ CycleMood
    \/ MoodRender

MoodSpec == MoodInit /\ [][MoodNext]_vars

----------------------------------------------------------------------------
(* Properties *)

\* the surface size the frame callback works with
FrameW == canvasW \div dpr

FrameH == canvasH \div dpr

\* the filled-circle draws of the most recent frame callback
Arcs == {i \in 1..Len(ops) : ops[i].op = "arc"}

Clears == {i \in 1..Len(ops) : ops[i].op = "clearRect"}

\* the least n with n * b >= a
LeastMultiple(a, b) == CHOOSE n \in 0..a : n * b >= a /\ (n = 0 \/ (n - 1) * b < a)

\* C1: a frame run on a surface of width 0 or height 0 (or with a grid
\* spacing <= 0) issues no paint call at all.
C1_ZeroSizeFramePaintsNothing ==
    (last = "frame" /\ (FrameW = 0 \/ FrameH = 0 \/ DOT_SPACING <= 0))
        => ops = <<>>

\* C2: at most one animation-frame callback of the loop is registered at
\* any time, under every interleaving of mount, resize, frame, pause and
\* cleanup.
C2_AtMostOnePending == Cardinality(pending) <= 1

\* a callback is registered again after a pause, a cleanup and a second mount
C2_Witness == mounted /\ paused /\ Cardinality(pending) = 1

\* C3: once the cleanup has run, no callback is registered, rafRef is 0 and
\* no frame callback runs until the effect is mounted again.
C3_NothingAfterCleanup ==
    ~mounted => (pending = {} /\ rafRef = 0 /\ last \notin {"frame", "pause"})

\* the cleanup ran while the callback registered by a rendered frame was pending
C3_Witness == ~mounted /\ ops # <<>> /\ last = "other"

\* the cleanup ran while the loop was paused
C3_WitnessPaused == ~mounted /\ paused /\ last = "other"

\* C4: a frame callback that finds the context or the canvas missing issues
\* no paint call, registers no callback and leaves rafRef at 0.
C4_PauseDoesNotSpin ==
    last = "pause" => (ops = <<>> /\ pending = {} /\ rafRef = 0)

C4_Witness == last = "pause" /\ mounted /\ ~canvasRef

C6_OnePointerReadPerFrame ==
    last = "frame" =>
        \A i \in Arcs : ops[i].mx = mouse.x /\ ops[i].my = mouse.y

\* a frame rendered after a mousemove wrote the slot
C6_Witness ==
    /\ last = "frame"
    /\ pointer = "present"
    /\ Cardinality(Arcs) > 1
    /\ \A i \in Arcs : ops[i].mx = 40 /\ ops[i].my = 40

C8_DrawCount ==
    last = "frame" =>
        LET cols == LeastMultiple(FrameW, DOT_SPACING) + 1
            rows == LeastMultiple(FrameH, DOT_SPACING) + 1
        IN  /\ Cardinality(Arcs) = cols * rows
            /\ Len(ops) = cols * rows + 1
            /\ {<<ops[i].x, ops[i].y>> : i \in Arcs} =
                 {<<c * DOT_SPACING, r * DOT_SPACING>> :
                      c \in 0..(cols - 1), r \in 0..(rows - 1)}
            /\ (FrameW = 100 /\ FrameH = 100 /\ DOT_SPACING = 20)
                   => Cardinality(Arcs) = 36

C8_Witness ==
    last = "frame" /\ FrameW = 100 /\ FrameH = 100 /\ Cardinality(Arcs) = 36

\* C9: before the first mousemove, and from a mouseleave to the next
\* mousemove, the slot holds the sentinel and every circle of every frame
\* has proximity 0.
C9_AbsentPointerNoProximity ==
    pointer # "present" =>
        /\ mouse = [x |-> SENTINEL, y |-> SENTINEL]
        /\ last = "frame" => \A i \in Arcs : ops[i].proximity = 0

\* a frame rendered after the pointer was over the canvas and left
C9_Witness == pointer = "left" /\ last = "frame" /\ Cardinality(Arcs) = 36

\* C10: a cell makes one noise sample (the base layer) when its proximity is
\* 0 and two (base, then turbulence) when its proximity is > 0; with the
\* sentinel in the slot every cell makes exactly one.
C10_NoiseSamplesPerCell ==
    last = "frame" =>
        /\ \A i \in Arcs :
              LET dx == ops[i].x - ops[i].mx
                  dy == ops[i].y - ops[i].my
                  near == dx * dx + dy * dy <
                            MOUSE_INFLUENCE_RADIUS * MOUSE_INFLUENCE_RADIUS
              IN  /\ near <=> ops[i].proximity > 0
                  /\ ops[i].samples =
                       IF near THEN <<"base", "turbulence">> ELSE <<"base">>
        /\ mouse = [x |-> SENTINEL, y |-> SENTINEL]
              => \A i \in Arcs : Len(ops[i].samples) = 1

\* one frame with cells inside and cells outside the influence radius
C10_Witness ==
    /\ last = "frame"
    /\ \E i \in Arcs : Len(ops[i].samples) = 2
    /\ \E i \in Arcs : Len(ops[i].samples) = 1 /\ ops[i].mx # SENTINEL

----------------------------------------------------------------------------
(* Properties of the single-cell computation *)

\* the computed results for the cell under study
CellRuns == 1..Len(cellOut)

RR == MOUSE_INFLUENCE_RADIUS * MOUSE_INFLUENCE_RADIUS

\* C11: proximity is max(0, 1 - distance/250): within [0, 1], exactly 1 with
\* the pointer on the cell centre, 0 at and beyond the influence radius, and
\* never smaller for a smaller distance.
C11_Proximity ==
    \A i \in CellRuns :
        LET r == cellOut[i]
            gap == MOUSE_INFLUENCE_RADIUS - r.proximity
        IN  /\ r.proximity >= 0 /\ r.proximity <= MOUSE_INFLUENCE_RADIUS
            /\ r.dd = 0 => r.proximity = MOUSE_INFLUENCE_RADIUS
            /\ r.dd >= RR => r.proximity = 0
            /\ r.dd < RR => (gap * gap <= r.dd /\ r.dd < (gap + 1) * (gap + 1))
            /\ \A j \in CellRuns :
                   cellOut[j].dd <= r.dd => cellOut[j].proximity >= r.proximity

\* the pointer first beyond the radius (not the sentinel), then on the cell
C11_Witness ==
    /\ Len(cellOut) = 2
    /\ cellOut[1].dd >= RR /\ cellOut[1].mx # SENTINEL
    /\ cellOut[1].proximity = 0
    /\ cellOut[2].dd = 0 /\ cellOut[2].proximity = MOUSE_INFLUENCE_RADIUS

C13_RadiusMonotone ==
    \A i, j \in CellRuns :
        cellOut[j].dd <= cellOut[i].dd => cellOut[j].radius >= cellOut[i].radius

\* the turbulence sample is -1 and the nearer position has the larger radius
C13_Witness ==
    /\ Len(cellOut) = 2
    /\ cellIn.turb = -NoiseDen
    /\ cellOut[2].dd < cellOut[1].dd
    /\ cellOut[1].proximity > 0
    /\ cellOut[2].radius > cellOut[1].radius

\* C14: the combined noise value of a cell lies in [-1, 1] and its
\* brightness in [0, 1], for every proximity and every pair of noise samples
\* in [-1, 1].
C14_NoiseValInRange ==
    \A i \in CellRuns :
        /\ cellOut[i].noiseVal >= -NoiseValDen
        /\ cellOut[i].noiseVal <= NoiseValDen
        /\ cellOut[i].brightness >= 0
        /\ cellOut[i].brightness <= BrightnessDen

\* C28: every filled-circle draw receives a strictly positive radius and an
\* alpha in [0, 1], for every proximity in [0, 1] and every pair of noise
\* samples in [-1, 1].
C28_DrawArgumentsValid ==
    \A i \in CellRuns :
        /\ cellOut[i].radius > 0
        /\ cellOut[i].alpha >= 0
        /\ cellOut[i].alpha <= AlphaDen

\* both noise samples are -1: with the pointer on the cell the brightness is
\* -0.3 and the base alpha negative, and the draw still gets a positive alpha
\* and radius; with the pointer beyond the radius the brightness is 0
C28_Witness ==
    /\ Len(cellOut) = 2
    /\ cellIn.base = -NoiseDen /\ cellIn.turb = -NoiseDen
    /\ cellOut[1].proximity > 0
    /\ cellOut[1].brightness < 0
    /\ BaseAlpha(cellOut[1].brightness) < 0
    /\ cellOut[1].alpha > 0 /\ cellOut[1].radius > 0
    /\ cellOut[2].proximity = 0 /\ cellOut[2].brightness = 0

----------------------------------------------------------------------------
(* Properties of simplex3 and its tables *)

\* C15: for every argument triple the call returns, reading the table only
\* inside its bounds, and the value lies in [-1, 1].
C15_NoiseInRange ==
    noiseOut # <<>> =>
        /\ noiseOut.value >= -NoiseOne /\ noiseOut.value <= NoiseOne
        /\ noiseOut.top >= 0 /\ noiseOut.top < Len(PERM)

\* a call far from the origin returned a value above 0.7
C15_Witness ==
    /\ noiseOut # <<>>
    /\ noiseIn[3] > 1000 * NoiseGrid
    /\ 10 * noiseOut.value > 7 * NoiseOne

\* C17: the permutation table has 512 entries, the first 256 are the
\* integers 0..255 each exactly once, and entry i + 256 equals entry i.
C17_PermShape ==
    /\ Len(PERM) = 512
    /\ {At(PERM, i) : i \in 0..255} = 0..255
    /\ \A i \in 0..255 : At(PERM, i + 256) = At(PERM, i)

\* a call whose hashing read the second copy of the table
C17_Witness ==
    /\ noiseOut # <<>>
    /\ noiseOut.top >= 256
    /\ At(PERM, noiseOut.top) = At(PERM, noiseOut.top - 256)

\* C16: no operation (noise call, frame, pointer event, resize, teardown)
\* modifies the permutation table or the gradient set, and two calls with
\* the same arguments return the same value whatever ran in between.
C16_TablesFixedCallsRepeat ==
    /\ PERM = PermDoubled
    /\ GRAD3 = Grad3Table
    /\ \A p \in DOMAIN noiseMemo :
           Len(noiseMemo[p]) = 2 => noiseMemo[p][1] = noiseMemo[p][2]

\* a triple sampled again after the other triple was sampled, frames were
\* rendered, the pointer moved and left, and the effect was torn down
C16_Witness ==
    /\ noiseIn \in ProbePoints
    /\ Len(noiseMemo[noiseIn]) = 2
    /\ \A p \in ProbePoints : noiseMemo[p] # <<>>
    /\ ops # <<>> /\ pointer = "left" /\ ~mounted
    /\ PERM = PermDoubled

----------------------------------------------------------------------------
(* Properties of the App tree *)

\* the current Lenis instance exists and is neither stopped nor destroyed
LenisRunning ==
    /\ lenisRef # 0
    /\ ~lenises[lenisRef].stopped
    /\ ~lenises[lenisRef].destroyed

\* C18: from App mount until the Loader's onComplete has fired, Lenis is
\* never running, whatever menu and project handlers run meanwhile.
C18_StoppedUntilLoaderComplete ==
    loaderCalls = <<>> => ~LenisRunning

\* C19: the Loader calls onComplete at most once per page load, also when
\* its effect is mounted, cleaned up and mounted again, and only when the
\* counter has reached 100 and the slide off screen has finished.
C19_OnCompleteOnceAfterSlide ==
    /\ Len(loaderCalls) <= 1
    /\ \A i \in DOMAIN loaderCalls :
           loaderCalls[i].val = 100 /\ loaderCalls[i].slid

\* onComplete was called by the second run of the effect, the first run's
\* timeline having been killed by the cleanup
C19_Witness ==
    /\ Len(loaderCalls) = 1
    /\ Len(timelines) = 2
    /\ timelines[1].tl = "killed" /\ timelines[1].val = 0
    /\ timelines[2].exit = "done"

\* the same with the glitch-exit Loader
C19_WitnessGlitch == C19_Witness /\ variant = "glitch"

\* C20: until the first toggleSound call no AudioContext exists and
\* isPlaying is false; mounts, re-mounts, menu events and re-renders do not
\* start audio.
C20_NoAutoPlay ==
    ~toggled => (audioCtx = "none" /\ ~isPlaying)

\* the tree was mounted twice, the loader has finished and the menu is open,
\* all without a toggleSound call
C20_Witness ==
    /\ ~toggled
    /\ commit = "live" /\ Len(lenises) = 2
    /\ loaderCalls # <<>>
    /\ isMenuOpen
    /\ audioCtx = "none" /\ ~isPlaying

\* the menu overlay or a project modal is open
OverlayOpen == isMenuOpen \/ selectedProject # {}

\* a call of one of App's four menu and project handlers
MenuOrProjectHandler ==
    \/ HandleMenuToggle
    \/ HandleMenuClose
    \/ HandleProjectOpen
    \/ HandleProjectClose

\* C21: after loader completion, whenever the menu overlay is open or a
\* project is selected, Lenis is stopped: no call of handleMenuToggle,
\* handleMenuClose, handleProjectOpen or handleProjectClose made in a state
\* where that holds leads to a state where it does not.
C21_OverlayOpenImpliesStopped ==
    [][(/\ loaderCalls # <<>>
        /\ OverlayOpen => ~LenisRunning
        /\ MenuOrProjectHandler)
           => (OverlayOpen' => ~LenisRunning')]_vars

\* C22: after the cleanup of useLenis no ticker callback registered by the
\* hook remains, and after mount, cleanup and mount at most one is registered.
C22_CleanupRemovesTickerCallback ==
    /\ commit = "cleaned" => ticker = {}
    /\ Cardinality(ticker) <= 1

\* C27: once every pending suspend timer has fired, the audio context, if
\* one exists, is suspended exactly when isPlaying is false; in particular
\* isPlaying = TRUE never ends with a suspended context.
C27_SuspendedIffNotPlaying ==
    (suspendTimers = 0 /\ audioCtx # "none")
        => (audioCtx = "suspended" <=> ~isPlaying)

----------------------------------------------------------------------------
(* The routed App (part_009): menu overlay and project modal state         *)
(*                                                                         *)
(* gsap.to starts a tween that runs to its end unless it is killed; a      *)
(* later tween of the same target does not kill it (overwrite is false     *)
(* unless set), so the onComplete of a fade-out still fires after the      *)
(* overlay was opened again.                                               *)

\* fade-out tweens of the overlay running at once that the model follows
MaxFadeOuts == 2

\* pending timers of handleModalClose that the model follows
MaxNullTimers == 2

RoutedInit ==
    /\ overlaySource \in {"current", "original", "routed"}
    /\ RoutedStart
    /\ MoodIdle
    /\ HeroIdle
    /\ CellIdle
    /\ TablesInit
    /\ NoiseIdle
    /\ variant = "slide" /\ AppStart

notRoutedVars == <<heroVars, cellVars, tableVars, noiseVars, appVars, moodVars>>

\* MenuOverlay's effect for isOpen = TRUE: the overlay is displayed
OverlayEnter ==
    /\ overlayDisplay' = "flex"
    /\ overlayVisibility' = IF overlaySource = "routed" THEN "visible"
                                                        ELSE overlayVisibility
    /\ UNCHANGED fadeOuts

\* MenuOverlay's effect for isOpen = FALSE: n fade-out tweens start
OverlayExit(n) ==
    /\ fadeOuts' = fadeOuts + n
    /\ UNCHANGED <<overlayDisplay, overlayVisibility>>

\* the first commit: MenuOverlay's effect runs with isOpen = FALSE, twice
\* under StrictMode
RoutedMount ==
    /\ ~routedCommit
    /\ routedCommit' = TRUE
    /\ \E strict \in BOOLEAN : OverlayExit(IF strict THEN 2 ELSE 1)
    /\ UNCHANGED <<overlaySource, routedMenuOpen, selectedProjectIndex,
                   isModalVisible, nullTimers, notRoutedVars>>

\* handleMenuToggle of the routed App, and MenuOverlay's effect on the
\* changed isOpen
RoutedMenuToggle ==
    /\ routedCommit
    /\ routedMenuOpen' = ~routedMenuOpen
    /\ IF routedMenuOpen' THEN OverlayEnter
                          ELSE fadeOuts < MaxFadeOuts /\ OverlayExit(1)
    /\ UNCHANGED <<overlaySource, routedCommit, selectedProjectIndex,
                   isModalVisible, nullTimers, notRoutedVars>>

\* handleMenuClose of the routed App on an open menu
RoutedMenuClose ==
    /\ routedCommit
    /\ routedMenuOpen
    /\ routedMenuOpen' = FALSE
    /\ fadeOuts < MaxFadeOuts
    /\ OverlayExit(1)
    /\ UNCHANGED <<overlaySource, routedCommit, selectedProjectIndex,
                   isModalVisible, nullTimers, notRoutedVars>>

\* a fade-out tween completes: its onComplete hides the overlay
FadeOutCompletes ==
    /\ fadeOuts > 0
    /\ fadeOuts' = fadeOuts - 1
    /\ overlayDisplay' = "none"
    /\ overlayVisibility' = IF overlaySource = "routed" THEN "hidden"
                                                        ELSE overlayVisibility
    /\ UNCHANGED <<overlaySource, routedCommit, routedMenuOpen,
                   selectedProjectIndex, isModalVisible, nullTimers,
                   notRoutedVars>>

\* handleProjectOpen(index) of the routed App
RoutedProjectOpen ==
    /\ routedCommit
    /\ \E index \in ProjectIndexes : selectedProjectIndex' = {index}
    /\ isModalVisible' = TRUE
    /\ UNCHANGED <<overlaySource, routedCommit, routedMenuOpen, overlayDisplay,
                   overlayVisibility, fadeOuts, nullTimers, notRoutedVars>>

\* handleModalClose
HandleModalClose ==
    /\ routedCommit
    /\ nullTimers < MaxNullTimers
    /\ isModalVisible' = FALSE
    /\ nullTimers' = nullTimers + 1
    /\ UNCHANGED <<overlaySource, routedCommit, routedMenuOpen, overlayDisplay,
                   overlayVisibility, fadeOuts, selectedProjectIndex,
                   notRoutedVars>>

\* a timer of handleModalClose fires: setSelectedProjectIndex(null)
NullTimerFires ==
    /\ nullTimers > 0
    /\ nullTimers' = nullTimers - 1
    /\ selectedProjectIndex' = {}
    /\ UNCHANGED <<overlaySource, routedCommit, routedMenuOpen, overlayDisplay,
                   overlayVisibility, fadeOuts, isModalVisible, notRoutedVars>>

RoutedNext ==
    \/ RoutedMount
    \/ RoutedMenuToggle
    \/ RoutedMenuClose
    \/ FadeOutCompletes
    \/ RoutedProjectOpen
    \/ HandleModalClose
    \/ NullTimerFires

RoutedSpec == RoutedInit /\ [][RoutedNext]_vars

----------------------------------------------------------------------------
(* Properties of the MoodProvider *)

\* no state update is pending and the effects have run
MoodSettled == mood # "" /\ moodQueue = <<>>

\* the entry of MOODS k places after name, wrapping
Shift(name, k) == MOODS[((IndexOf(name) + k) % Len(MOODS)) + 1]

\* C23: after setMood and cycleMood calls, once the updates and effects have
\* settled, the mood state, the stored value and both data-mood attributes
\* are equal, and a provider mounted then starts in that mood.
C23_MoodInSync ==
    (MoodSettled /\ moodCalled) =>
        /\ stored = mood
        /\ bodyMood = mood
        /\ htmlMood = mood
        /\ InitialMood(stored) = mood

\* C24: the mood state is always a name in MOODS; a provider that finds no
\* stored value or an unrecognised one starts in "default", one that finds
\* a name of MOODS starts in it; after k cycleMood calls the mood is the
\* entry k places on, wrapping, so MOODS.length calls return to the start.
C24_MoodCycles ==
    /\ [](mood # "" => mood \in MoodNames)
    /\ [](MoodSettled => mood = Shift(cycleFrom, cycleCount))
    /\ []((MoodSettled /\ cycleCount = Len(MOODS)) => mood = cycleFrom)
    /\ [][MoodMount =>
            mood' = IF stored \in {"default", "midnight", "ember", "toxic", "ghost"}
                    THEN stored ELSE "default"]_vars

\* a provider that found 'light' in storage started in "default", and
\* MOODS.length cycleMood calls later the mood is "default" again
C24_Witness ==
    /\ MoodSettled
    /\ cycleCount = Len(MOODS)
    /\ cycleFrom = "default"
    /\ mood = "default"
    /\ htmlMood = "default"

\* a provider has just started from the stored value 'light'
C24_WitnessLegacy ==
    /\ stored = "light"
    /\ mood = "default"
    /\ bodyMood = "default"

----------------------------------------------------------------------------
(* Properties of the routed App *)

\* C25: whenever the project modal is visible the selected project index is
\* non-null, under every interleaving of handleProjectOpen, handleModalClose
\* and the timers that handleModalClose starts.
C25_VisibleImpliesSelected ==
    isModalVisible => selectedProjectIndex # {}

\* C26: once every fade-out tween of the overlay has completed, the overlay
\* is displayed (display flex) exactly when isOpen is true.
C26_DisplayMatchesIsOpen ==
    (routedCommit /\ fadeOuts = 0)
        => (overlayDisplay = "flex" <=> routedMenuOpen)

====
